---------------------------- MODULE Spec2Model ----------------------------
(***************************************************************************)
(* A model of black_hole_scattering.py: the construction of the time grid  *)
(* and of the frame sequence in BBH_scattering, the per-frame callback     *)
(* update_lines, the click handler of the interactive mode, and the pure   *)
(* helpers (spline_interp, get_uniform_in_orbits_times, get_trajectory,    *)
(* the choice of the writer from the file extension).                      *)
(*                                                                         *)
(* Times are fixed-point numbers: one unit of the model is 1/TicksPerM of  *)
(* the program's time unit M.  Array indices are Python's (0-based); a     *)
(* TLA+ sequence s holds the array element of index i at s[i+1].           *)
(***************************************************************************)
EXTENDS Integers, Sequences, FiniteSets, TLC

VARIABLES
    pc,                     \* position of the program
    raised,                 \* the exception that ended the run, or "none"
    \* ---- BBH_scattering
    draw_full_trajectory,   \* the command line flag
    t_sparse,               \* what get_uniform_in_orbits_times returned (ticks)
    t_binary,               \* the pre-merger grid (ticks)
    tds_first, tds_last,    \* first and last sample of nr_sur.tds (ticks)
    t,                      \* the composite time grid (ticks)
    traj_len,               \* number of samples of BhA_traj and BhB_traj
    BhC_len,                \* number of samples of BhC_traj
    freeze_idx,
    frames,                 \* the frame sequence handed to FuncAnimation
    \* ---- the animation and the artists update_lines mutates
    frame_pos,              \* number of frames of the current pass already drawn
    last_num,               \* the frame index of the last update_lines call (-1: none)
    lines,                  \* index 0..8 -> the sample indices the artist shows
    time_text, properties_text, freeze_text, timestep_text,
    collections,            \* the waveform contour drawn on the bottom plane
    clears,                 \* history: transitions (clearings) of the current pass
    phases,                 \* history: the phases the current pass went through
    passes,                 \* history: completed playback passes
    \* ---- interactive mode
    pause,                  \* the global flag of onClick
    running,                \* whether the timer of line_ani.event_source runs
    clicks,                 \* history: number of clicks handled
    \* ---- __main__: the command line and what it leads to
    save_file,              \* [given, path]: args.save_file, None when not given
    extension,
    Writer,                 \* the animation writer chosen, or "none"
    saved,                  \* whether line_ani.save wrote the file
    shown,                  \* whether P.show() put the animation on screen
    \* ---- spline_interp
    newX, oldX, oldY, allowExtrapolation,
    newY,                   \* the array returned
    \* ---- get_uniform_in_orbits_times
    nr_tds, phi_orb,        \* the arguments t and phi_orb
    n_pts,
    \* ---- get_trajectory and its two callers
    arith,                  \* the arithmetic the call is evaluated in
    q, separation, quat_nrsur, orbphase_nrsur,
    BhA_traj, BhB_traj

mainVars == <<draw_full_trajectory, t_sparse, t_binary, tds_first, tds_last, t, traj_len, BhC_len,
              freeze_idx, frames>>
artistVars == <<lines, time_text, properties_text, freeze_text, timestep_text,
                collections>>
playVars == <<frame_pos, last_num, clears, phases, passes>>
clickVars == <<pause, running, clicks>>
saveVars == <<save_file, extension, Writer, saved, shown>>
splineVars == <<newX, oldX, oldY, allowExtrapolation, newY>>
orbitVars == <<nr_tds, phi_orb, n_pts>>
trajVars == <<arith, q, separation, quat_nrsur, orbphase_nrsur, BhA_traj, BhB_traj>>
pureVars == <<saveVars, splineVars, orbitVars, trajVars>>
vars == <<pc, raised, mainVars, artistVars, playVars, clickVars, pureVars>>

---------------------------------------------------------------------------
(* Program constants *)

PTS_PER_ORBIT == 30
FREEZE_TIME == -100
WAVEFORM_END_TIME == 75
POST_MERGER_STEP == 100
POST_MERGER_SPAN == 10000
FREEZE_COPIES == 75

(* Bounds of the model *)

\* resolution of the fixed-point times: ticks per M
TicksPerM == 10
\* the resampled grid holds PTS_PER_ORBIT samples per whole orbit
MaxOrbits == 1
\* number of clicks and of playback passes that are followed
MaxClicks == 3
MaxPasses == 1

---------------------------------------------------------------------------
(* Helpers: numpy on sequences *)

Abs(x) == IF x < 0 THEN -x ELSE x

Max2(a, b) == IF a > b THEN a ELSE b

Range(s) == {s[i] : i \in DOMAIN s}

\* np.min, np.max of a non-empty array
NpMin(s) == CHOOSE x \in Range(s) : \A y \in Range(s) : x <= y
NpMax(s) == CHOOSE x \in Range(s) : \A y \in Range(s) : x >= y

\* np.sort
NpSort(s) == SortSeq(s, LAMBDA a, b : a < b)

\* np.argmin: the (0-based) index of the first minimum
NpArgmin(s) ==
    (CHOOSE i \in DOMAIN s :
        /\ \A j \in DOMAIN s : s[i] <= s[j]
        /\ \A j \in DOMAIN s : j < i => s[j] > s[i]) - 1

\* a[cond]: the elements that satisfy Keep, in order
Filter(s, Keep(_)) == SelectSeq(s, Keep)

\* Python's a[lo:hi] on an array of n elements, as the list of indices it takes
PyNorm(n, i) == IF i < 0 THEN Max2(0, n + i) ELSE IF i > n THEN n ELSE i
PySlice(n, lo, hi) ==
    LET a == PyNorm(n, lo)
        b == PyNorm(n, hi)
    IN  [k \in 1..Max2(0, b - a) |-> a + k - 1]

\* Python's a[i] on an array of n elements: the index it reads
PyIndex(n, i) == IF i < 0 THEN n + i ELSE i

\* range(lo, hi) and np.arange(lo, hi, step), step > 0
PyRange(lo, hi) == [k \in 1..Max2(0, hi - lo) |-> lo + k - 1]
NpArange(lo, hi, step) ==
    [k \in 1..Max2(0, (hi - lo + step - 1) \div step) |-> lo + (k - 1) * step]

Repeat(x, n) == [k \in 1..n |-> x]

Ticks(m) == m * TicksPerM

---------------------------------------------------------------------------
(* BBH_scattering: the freeze step, the composite grid, the frames *)

\* np.abs(t_binary - FREEZE_TIME) > 0.1, per sample
FarFromFreeze(x) == 10 * Abs(x - Ticks(FREEZE_TIME)) > TicksPerM

AddFreezeTime_Unsorted(tb) ==
    IF \A i \in DOMAIN tb : FarFromFreeze(tb[i])
    THEN Append(tb, Ticks(FREEZE_TIME))
    ELSE tb

\* lines 413-415, for a non-empty grid
AddFreezeTime(tb) ==
    IF \A i \in DOMAIN tb : FarFromFreeze(tb[i])
    THEN NpSort(Append(tb, Ticks(FREEZE_TIME)))
    ELSE tb

AtOrBeforeWaveformEnd(x) == x <= Ticks(WAVEFORM_END_TIME)

\* line 458: t_binary < waveform_end_time
BeforeWaveformEnd(x) == x < Ticks(WAVEFORM_END_TIME)

\* lines 457-459
CompositeGrid(tb) ==
    Filter(tb, BeforeWaveformEnd)
      \o NpArange(Ticks(WAVEFORM_END_TIME),
                  Ticks(POST_MERGER_SPAN + WAVEFORM_END_TIME),
                  Ticks(POST_MERGER_STEP))

\* line 600
FreezeIdx(tt) == NpArgmin([i \in DOMAIN tt |-> Abs(tt[i] - Ticks(FREEZE_TIME))])

\* lines 611-614
Frames(tt, fidx) ==
    NpSort(PyRange(1, Len(tt)) \o Repeat(fidx, FREEZE_COPIES))

---------------------------------------------------------------------------
(* The grids get_uniform_in_orbits_times can hand to BBH_scattering:       *)
(* PTS_PER_ORBIT samples per whole orbit, increasing, the first and the    *)
(* last being the ends of nr_sur.tds.  A grid is described by its first    *)
(* sample and two spacings, a coarse one for the inspiral and a fine one   *)
(* for the last samples.                                                   *)

FineSamples == 6
StartOffsets == {-50, -1, 0, 10}
CoarseSet == {1, 42}
FineStartSet == {-5, 0}
FineSet == {1, 4, 250}

Grid(n, start, coarse, fineStart, fine) ==
    [k \in 1..n |->
        IF k <= n - FineSamples
        THEN start + (k - 1) * coarse
        ELSE fineStart + (k - (n - FineSamples) - 1) * fine]

StrictlyIncreasing(s) == \A i \in DOMAIN s : i < Len(s) => s[i] < s[i + 1]

Grids ==
    {<< >>} \cup
    {g \in {Grid(PTS_PER_ORBIT * o, Ticks(FREEZE_TIME) + s, c, fs, f) :
                o \in 1..MaxOrbits, s \in StartOffsets, c \in CoarseSet,
                fs \in FineStartSet, f \in FineSet} :
        StrictlyIncreasing(g)}

---------------------------------------------------------------------------
(* update_lines *)

\* line 597
HistFrames == (3 * PTS_PER_ORBIT) \div 4

\* lines 329-335: where the slice of a trail (idx 0, 1) starts
TrailStart(num, full) == IF full THEN 0 ELSE Max2(0, num - HistFrames)

\* line 335: where the slice of a position marker (idx 2, 3) starts
MarkerStart(num) == Max2(0, num - 1)

NoLines == [idx \in 0..8 |-> << >>]

\* The artists after update_lines(num, ...), as a record.  d is the record
\* of the artists before the call.
update_lines(num, d, tt, tlen, fidx, full) ==
    LET current_time == tt[PyIndex(Len(tt), num) + 1]
        freeze1 == IF num = fidx - 1 THEN "Freezing video" ELSE d.freeze_text
        freeze2 == IF num = fidx + 1 THEN "" ELSE freeze1
        wave == current_time < Ticks(WAVEFORM_END_TIME)
        coll == IF wave THEN <<PyIndex(tlen, num - 1)>> ELSE d.collections
        step1 == IF wave THEN d.timestep_text ELSE "Increased time step to 100M"
        binary == current_time < 0
        clearRemnant == binary /\ num < 2
        transition == ~binary /\ Abs(current_time) < Ticks(1)
    IN  [ time_text |-> <<current_time>>,
          freeze_text |-> freeze2,
          collections |-> coll,
          timestep_text |-> IF clearRemnant THEN "" ELSE step1,
          properties_text |->
              IF binary THEN <<"binary", PyIndex(tlen, num - 1)>>
              ELSE IF transition THEN <<"remnant", 0>>
              ELSE d.properties_text,
          lines |->
              [idx \in 0..8 |->
                  IF binary
                  THEN CASE idx \in {0, 1} ->
                                PySlice(tlen, TrailStart(num, full), num)
                         [] idx \in {2, 3} ->
                                PySlice(tlen, MarkerStart(num), num)
                         [] idx \in {4, 5, 6} -> <<PyIndex(tlen, num - 1)>>
                         [] OTHER -> IF clearRemnant THEN << >> ELSE d.lines[idx]
                  ELSE CASE idx \in 0..6 ->
                                IF transition THEN << >> ELSE d.lines[idx]
                         [] idx = 7 -> PySlice(Len(tt), num - 1, num)
                         [] OTHER -> <<PyIndex(Len(tt), num - 1)>>],
          phase |-> IF binary THEN "pre-merger"
                    ELSE IF transition THEN "transition" ELSE "post-merger" ]

Artists ==
    [ time_text |-> time_text, freeze_text |-> freeze_text,
      collections |-> collections, timestep_text |-> timestep_text,
      properties_text |-> properties_text, lines |-> lines ]

---------------------------------------------------------------------------
(* The program *)

IdleArtists ==
    /\ lines = NoLines
    /\ time_text = << >>
    /\ properties_text = <<"", 0>>
    /\ freeze_text = ""
    /\ timestep_text = ""
    /\ collections = << >>

IdlePlay ==
    /\ frame_pos = 0
    /\ last_num = -1
    /\ clears = 0
    /\ phases = << >>
    /\ passes = 0

IdleClick ==
    /\ pause = FALSE
    /\ running = FALSE
    /\ clicks = 0

IdleMain ==
    /\ draw_full_trajectory = FALSE
    /\ t_sparse = << >>
    /\ t_binary = << >>
    /\ tds_first = 0
    /\ tds_last = 0
    /\ t = << >>
    /\ traj_len = 0
    /\ BhC_len = 0
    /\ freeze_idx = 0
    /\ frames = << >>

IdleSave ==
    /\ save_file = [given |-> FALSE, path |-> << >>]
    /\ extension = << >>
    /\ Writer = "none"
    /\ saved = FALSE
    /\ shown = FALSE

IdleSpline ==
    /\ newX = << >>
    /\ oldX = << >>
    /\ oldY = << >>
    /\ allowExtrapolation = FALSE
    /\ newY = << >>

IdleOrbit ==
    /\ nr_tds = << >>
    /\ phi_orb = << >>
    /\ n_pts = 0

IdleTraj ==
    /\ arith = "real"
    /\ q = 1
    /\ separation = << >>
    /\ quat_nrsur = << >>
    /\ orbphase_nrsur = << >>
    /\ BhA_traj = << >>
    /\ BhB_traj = << >>

Init ==
    /\ pc = "resampled"
    /\ raised = "none"
    /\ draw_full_trajectory \in BOOLEAN
    /\ t_sparse \in Grids
    /\ t_binary = t_sparse
    /\ tds_first = IF t_binary = << >> THEN 0 ELSE t_binary[1]
    /\ tds_last = IF t_binary = << >> THEN 0 ELSE t_binary[Len(t_binary)]
    /\ t = << >>
    /\ traj_len = 0
    /\ BhC_len = 0
    /\ freeze_idx = 0
    /\ frames = << >>
    /\ IdleArtists
    /\ IdlePlay
    /\ IdleClick
    /\ IdleSave /\ IdleSpline /\ IdleOrbit /\ IdleTraj

\* lines 413-415.  np.min of an empty array raises ValueError.
FreezeStep ==
    /\ UNCHANGED pureVars
    /\ pc = "resampled"
    /\ IF t_binary = << >>
       THEN /\ pc' = "failed"
            /\ raised' = "ValueError"
            /\ UNCHANGED t_binary
       ELSE /\ pc' = "frozen"
            /\ t_binary' = AddFreezeTime(t_binary)
            /\ UNCHANGED raised
    /\ UNCHANGED <<draw_full_trajectory, t_sparse, tds_first, tds_last, t, traj_len, BhC_len,
                   freeze_idx, frames, artistVars, playVars, clickVars>>

\* lines 417-439: the dynamics are interpolated from nr_sur.tds onto
\* t_binary by spline_interp, which does not extrapolate; the trajectories
\* have one sample per sample of t_binary.
Interpolate ==
    /\ UNCHANGED pureVars
    /\ pc = "frozen"
    /\ IF NpMin(t_binary) < tds_first \/ NpMax(t_binary) > tds_last
       THEN /\ pc' = "failed"
            /\ raised' = "Trying to extrapolate, but allowExtrapolation=False"
            /\ UNCHANGED traj_len
       ELSE /\ pc' = "interpolated"
            /\ traj_len' = Len(t_binary)
            /\ UNCHANGED raised
    /\ UNCHANGED <<draw_full_trajectory, t_sparse, t_binary, tds_first, tds_last, t,
                   BhC_len, freeze_idx, frames, artistVars, playVars, clickVars>>

BuildGrid_RemnantOnBinaryGrid ==
    /\ UNCHANGED pureVars
    /\ pc = "interpolated"
    /\ t' = CompositeGrid(t_binary)
    /\ BhC_len' = Len(t_binary)
    /\ pc' = "gridded"
    /\ UNCHANGED <<raised, draw_full_trajectory, t_sparse, t_binary, tds_first, tds_last,
                   traj_len, freeze_idx, frames, artistVars, playVars,
                   clickVars>>

\* lines 454-462
BuildGrid ==
    /\ UNCHANGED pureVars
    /\ pc = "interpolated"
    /\ t' = CompositeGrid(t_binary)
    /\ BhC_len' = Len(CompositeGrid(t_binary))
    /\ pc' = "gridded"
    /\ UNCHANGED <<raised, draw_full_trajectory, t_sparse, t_binary, tds_first, tds_last,
                   traj_len, freeze_idx, frames, artistVars, playVars,
                   clickVars>>

\* lines 599-628 and 686-698: the frames, the animation, and P.show(),
\* which starts the timer.
BuildFrames ==
    /\ UNCHANGED pureVars
    /\ pc = "gridded"
    /\ freeze_idx' = FreezeIdx(t)
    /\ frames' = Frames(t, FreezeIdx(t))
    /\ pc' = "show"
    /\ running' = TRUE
    /\ UNCHANGED <<raised, draw_full_trajectory, t_sparse, t_binary, tds_first, tds_last,
                   t, traj_len, BhC_len, artistVars, playVars, pause, clicks>>

\* A tick of the timer while frames are left: FuncAnimation calls
\* update_lines with the next frame.
Tick ==
    /\ UNCHANGED pureVars
    /\ pc = "show"
    /\ running
    /\ frame_pos < Len(frames)
    /\ LET num == frames[frame_pos + 1]
           d == update_lines(num, Artists, t, traj_len, freeze_idx,
                             draw_full_trajectory)
       IN  /\ lines' = d.lines
           /\ time_text' = d.time_text
           /\ properties_text' = d.properties_text
           /\ freeze_text' = d.freeze_text
           /\ timestep_text' = d.timestep_text
           /\ collections' = d.collections
           /\ clears' = clears + (IF d.phase = "transition" THEN 1 ELSE 0)
           /\ phases' = IF phases # << >> /\ phases[Len(phases)] = d.phase
                         THEN phases ELSE Append(phases, d.phase)
           /\ last_num' = num
    /\ frame_pos' = frame_pos + 1
    /\ UNCHANGED <<pc, raised, mainVars, passes, clickVars>>

\* A tick of the timer after the last frame: repeat=True starts the frame
\* sequence again.
Replay ==
    /\ UNCHANGED pureVars
    /\ pc = "show"
    /\ running
    /\ frame_pos = Len(frames)
    /\ frame_pos' = 0
    /\ clears' = 0
    /\ phases' = << >>
    /\ passes' = IF passes < MaxPasses THEN passes + 1 ELSE passes
    /\ UNCHANGED <<pc, raised, mainVars, artistVars, last_num, clickVars>>

onClick_FlagNotSet ==
    /\ UNCHANGED pureVars
    /\ pc = "show"
    /\ clicks < MaxClicks
    /\ IF pause
       THEN /\ running' = TRUE
            /\ pause' = FALSE
       ELSE /\ running' = FALSE
            /\ pause' = pause
    /\ clicks' = clicks + 1
    /\ UNCHANGED <<pc, raised, mainVars, artistVars, playVars>>

\* lines 689-696
onClick ==
    /\ UNCHANGED pureVars
    /\ pc = "show"
    /\ clicks < MaxClicks
    /\ IF pause
       THEN /\ running' = TRUE
            /\ pause' = FALSE
       ELSE /\ running' = FALSE
            /\ pause' = TRUE
    /\ clicks' = clicks + 1
    /\ UNCHANGED <<pc, raised, mainVars, artistVars, playVars>>

Next ==
    \/ FreezeStep
    \/ Interpolate
    \/ BuildGrid
    \/ BuildFrames
    \/ Tick
    \/ Replay
    \/ onClick

Spec == Init /\ [][Next]_vars

---------------------------------------------------------------------------
(* __main__: the writer chosen from the extension of --save_file *)

MaxPathLen == 5
Chars == {".", "m", "p", "4", "g", "i", "f"}

Paths == UNION {[1..n -> Chars] : n \in 0..MaxPathLen}

\* the index of the first "." of s, 0 when there is none
FirstDot(s) ==
    IF \E i \in DOMAIN s : s[i] = "."
    THEN CHOOSE i \in DOMAIN s : s[i] = "." /\ \A j \in 1..(i - 1) : s[j] # "."
    ELSE 0

\* str.split('.')
RECURSIVE PySplit(_)
PySplit(s) ==
    IF FirstDot(s) = 0
    THEN <<s>>
    ELSE <<SubSeq(s, 1, FirstDot(s) - 1)>>
            \o PySplit(SubSeq(s, FirstDot(s) + 1, Len(s)))

PyExtension_FirstPart(path) == PySplit(path)[1]

\* line 663: args.save_file.split('.')[-1]
PyExtension(path) == PySplit(path)[Len(PySplit(path))]

SaveInit ==
    /\ pc = "main"
    /\ raised = "none"
    /\ save_file \in {[given |-> FALSE, path |-> << >>]}
                        \cup {[given |-> TRUE, path |-> x] : x \in Paths}
    /\ extension = << >>
    /\ Writer = "none"
    /\ saved = FALSE
    /\ shown = FALSE
    /\ IdleMain /\ IdleArtists /\ IdlePlay /\ IdleClick
    /\ IdleSpline /\ IdleOrbit /\ IdleTraj

notSaveVars == <<mainVars, artistVars, playVars, clickVars, splineVars,
                 orbitVars, trajVars>>

\* lines 660-671
SelectWriter ==
    /\ pc = "main"
    /\ save_file.given
    /\ extension' = PyExtension(save_file.path)
    /\ IF extension' = <<"m", "p", "4">>
       THEN Writer' = "ffmpeg" /\ pc' = "writer" /\ UNCHANGED raised
       ELSE IF extension' = <<"g", "i", "f">>
       THEN Writer' = "imagemagick" /\ pc' = "writer" /\ UNCHANGED raised
       ELSE /\ raised' = "Invalid extension"
            /\ pc' = "failed"
            /\ UNCHANGED Writer
    /\ UNCHANGED <<save_file, saved, shown, notSaveVars>>

\* lines 673-684
SaveAnimation ==
    /\ pc = "writer"
    /\ saved' = TRUE
    /\ pc' = "done"
    /\ UNCHANGED <<raised, save_file, extension, Writer, shown, notSaveVars>>

\* lines 686-698
ShowAnimation ==
    /\ pc = "main"
    /\ ~save_file.given
    /\ shown' = TRUE
    /\ pc' = "done"
    /\ UNCHANGED <<raised, save_file, extension, Writer, saved, notSaveVars>>

SaveNext ==
    \/ SelectWriter
    \/ SaveAnimation
    \/ ShowAnimation

SaveSpec == SaveInit /\ [][SaveNext]_vars

\* the text after the last "." of path (all of path when it holds no ".")
TextAfterLastDot(path) ==
    CHOOSE e \in {SubSeq(path, k, Len(path)) : k \in 1..(Len(path) + 1)} :
        /\ \A i \in DOMAIN e : e[i] # "."
        /\ Len(e) = Len(path) \/ path[Len(path) - Len(e)] = "."

\* C4: a run with --save_file ends with the file written by ffmpeg when the
\* text after the last "." is mp4, by imagemagick when it is gif, and with
\* the error 'Invalid extension' and no file otherwise; nothing is shown.
\* A run without --save_file saves nothing and shows the animation.  No
\* file is ever written unless the extension is mp4 or gif.
C4_WriterFromExtension ==
    LET ext == TextAfterLastDot(save_file.path)
        known == ext \in {<<"m", "p", "4">>, <<"g", "i", "f">>}
    IN  /\ saved => (save_file.given /\ known)
        /\ shown => ~save_file.given
        /\ Writer # "none" =>
              Writer = (IF ext = <<"m", "p", "4">> THEN "ffmpeg" ELSE "imagemagick")
        /\ pc \in {"done", "failed"} =>
              /\ (save_file.given /\ known) =>
                    (saved /\ raised = "none" /\ Writer # "none" /\ pc = "done")
              /\ (save_file.given /\ ~known) =>
                    (raised = "Invalid extension" /\ ~saved /\ pc = "failed")
              /\ ~save_file.given => (shown /\ ~saved /\ raised = "none")

C4_GifAfterTwoDots ==
    /\ pc = "done"
    /\ saved
    /\ Writer = "imagemagick"
    /\ Len(save_file.path) = 5
    /\ save_file.path[1] = "."
    /\ save_file.path[2] = "."

---------------------------------------------------------------------------
(* spline_interp *)

MaxKnots == 4
MaxNew == 2
XSet == {0, 2, 4, 6, 8}
NewXSet == {-1, 0, 3, 8, 9}
YSet == {0, 1}

\* InterpolatedUnivariateSpline has degree k = 3 and needs more than k points
SplineDegree == 3

Reverse(s) == [i \in DOMAIN s |-> s[Len(s) + 1 - i]]

SortedSeqOf(S) ==
    CHOOSE f \in [1..Cardinality(S) -> S] :
        \A i \in 1..(Cardinality(S) - 1) : f[i] < f[i + 1]

OldXChoices ==
    LET inc == {SortedSeqOf(S) : S \in {T \in SUBSET XSet : Cardinality(T) <= MaxKnots}}
    IN  inc \cup {Reverse(x) : x \in inc}

OldYChoices(x) ==
    { [i \in DOMAIN x |-> 1],
      [i \in DOMAIN x |-> i % 2],
      [i \in 1..(Len(x) + 1) |-> 1] }

Extrapolates_MinOnly(nx, ox) == NpMin(nx) < NpMin(ox)

\* line 117
Extrapolates(nx, ox) == NpMin(nx) < NpMin(ox) \/ NpMax(nx) > NpMax(ox)

\* The exception spline_interp ends with on these arguments, "none" when
\* it returns (lines 113-128).
SplineError(nx, ox, oy, allow) ==
    IF Len(oy) # Len(ox) THEN "Lengths dont match."
    ELSE IF ~allow /\ (nx = << >> \/ ox = << >>) THEN "ValueError"
    ELSE IF ~allow /\ Extrapolates(nx, ox)
        THEN "Trying to extrapolate, but allowExtrapolation=False"
    ELSE IF ~StrictlyIncreasing(ox) THEN "oldX must have increasing values"
    ELSE IF Len(ox) <= SplineDegree THEN "scipy: m > k must hold"
    ELSE "none"

\* line 128: the values InterpolatedUnivariateSpline(oldX, oldY, ext=1) can
\* return at newX: zero outside [oldX[0], oldX[-1]], oldY at a point of
\* oldX, and otherwise the value of the spline there, which is left open.
SplineValues(nx, ox, oy) ==
    {y \in [DOMAIN nx -> YSet] :
        \A i \in DOMAIN nx :
            /\ (nx[i] < ox[1] \/ nx[i] > ox[Len(ox)]) => y[i] = 0
            /\ \A j \in DOMAIN ox : nx[i] = ox[j] => y[i] = oy[j]}

SplineInit ==
    /\ pc = "spline_call"
    /\ raised = "none"
    /\ oldX \in OldXChoices
    /\ oldY \in OldYChoices(oldX)
    /\ newX \in UNION {[1..n -> NewXSet] : n \in 0..MaxNew}
    /\ allowExtrapolation \in BOOLEAN
    /\ newY = << >>
    /\ IdleMain /\ IdleArtists /\ IdlePlay /\ IdleClick
    /\ IdleSave /\ IdleOrbit /\ IdleTraj

notSplineVars == <<mainVars, artistVars, playVars, clickVars, saveVars,
                   orbitVars, trajVars>>

\* lines 109-129
spline_interp ==
    /\ pc = "spline_call"
    /\ LET err == SplineError(newX, oldX, oldY, allowExtrapolation)
       IN  IF err # "none"
           THEN /\ raised' = err
                /\ pc' = "failed"
                /\ UNCHANGED newY
           ELSE /\ newY' \in SplineValues(newX, oldX, oldY)
                /\ pc' = "returned"
                /\ UNCHANGED raised
    /\ UNCHANGED <<newX, oldX, oldY, allowExtrapolation, notSplineVars>>

SplineNext == spline_interp

SplineSpec == SplineInit /\ [][SplineNext]_vars

\* newX[i] lies below every sample of oldX or above every sample of oldX
OutsideOldX(i) ==
    /\ oldX # << >>
    /\ \/ \A j \in DOMAIN oldX : newX[i] < oldX[j]
       \/ \A j \in DOMAIN oldX : newX[i] > oldX[j]

SplineCallOver == pc \in {"returned", "failed"}

\* C5: without allowExtrapolation a call with a point of newX outside oldX
\* raises and returns nothing; with it the call never raises the
\* extrapolation error, returns whenever oldX and oldY are acceptable, and
\* every value returned at a point outside oldX is zero.
C5_ExtrapolationGuard ==
    SplineCallOver =>
        /\ (~allowExtrapolation /\ \E i \in DOMAIN newX : OutsideOldX(i)) =>
              (pc = "failed" /\ raised # "none" /\ newY = << >>)
        /\ allowExtrapolation =>
              raised # "Trying to extrapolate, but allowExtrapolation=False"
        /\ ( /\ allowExtrapolation
             /\ Len(oldY) = Len(oldX)
             /\ StrictlyIncreasing(oldX)
             /\ Len(oldX) > SplineDegree ) => pc = "returned"
        /\ pc = "returned" =>
              /\ Len(newY) = Len(newX)
              /\ \A i \in DOMAIN newX : OutsideOldX(i) => newY[i] = 0

C5_ZeroOutsideOneInside ==
    /\ pc = "returned"
    /\ allowExtrapolation
    /\ \E i \in DOMAIN newX : OutsideOldX(i) /\ newY[i] = 0
    /\ \E i \in DOMAIN newX : ~OutsideOldX(i) /\ newY[i] = 1

---------------------------------------------------------------------------
(* get_uniform_in_orbits_times.  A phase is a whole number of units, of    *)
(* which PhaseUnitsPerTurn make 2 pi.                                      *)

PhaseUnitsPerTurn == 4
MaxDense == 3
MaxPhase == 9

\* np.linspace(a, b, n) as the numerators over the common denominator
\* LinDen(n): sample k (0-based) is a + k (b - a) / (n - 1)
LinDen(n) == IF n > 1 THEN n - 1 ELSE 1
LinNum(a, b, n) == [k \in 1..n |-> a * LinDen(n) + (k - 1) * (b - a)]

\* np.interp at the point num/den of the line through the samples (xp, fp):
\* fp[0] left of xp[0], fp[-1] right of xp[-1]; otherwise the samples are
\* searched from the left for the first one beyond the point, and the value
\* is taken on the segment that ends there.  The result is cut to a whole
\* number of ticks.
NpInterp1(num, den, xp, fp) ==
    IF num > xp[Len(xp)] * den THEN fp[Len(fp)]
    ELSE IF num < xp[1] * den THEN fp[1]
    ELSE LET beyond == {i \in 2..Len(xp) : num < xp[i] * den}
             i == IF beyond = {} THEN Len(xp) + 1
                  ELSE CHOOSE m \in beyond : \A o \in beyond : m <= o
             j == i - 1
         IN  IF j = Len(xp) THEN fp[j]
             ELSE fp[j] + ((num - xp[j] * den) * (fp[j + 1] - fp[j]))
                              \div (den * (xp[j + 1] - xp[j]))

\* line 160: int(abs((phi_orb[-1] - phi_orb[0])/(2*np.pi)))
NOrbits(phi) == Abs(phi[Len(phi)] - phi[1]) \div PhaseUnitsPerTurn

NPts_Fractional(phi) ==
    (Abs(phi[Len(phi)] - phi[1]) * PTS_PER_ORBIT) \div PhaseUnitsPerTurn

\* line 163
NPts(phi) == NOrbits(phi) * PTS_PER_ORBIT

\* lines 164-165
UniformInOrbits(tt, phi) ==
    LET n == NPts(phi)
        x == LinNum(phi[1], phi[Len(phi)], n)
    IN  [k \in 1..n |-> NpInterp1(x[k], LinDen(n), phi, tt)]

\* the time samples that go with a phase series of n samples
DenseTimes(n, first) == [i \in 1..n |-> first + (i - 1) * Ticks(150)]

OrbitInit ==
    /\ pc = "orbit_call"
    /\ raised = "none"
    /\ phi_orb \in UNION {[1..n -> 0..MaxPhase] : n \in 0..MaxDense}
    /\ nr_tds \in {DenseTimes(Len(phi_orb), Ticks(-300)),
                   DenseTimes(Len(phi_orb), Ticks(-100))}
    /\ n_pts = 0
    /\ IdleMain /\ IdleArtists /\ IdlePlay /\ IdleClick
    /\ IdleSave /\ IdleSpline /\ IdleTraj

notOrbitVars == <<draw_full_trajectory, t_binary, tds_first, tds_last, t,
                  traj_len, BhC_len, freeze_idx, frames, artistVars, playVars,
                  clickVars, saveVars, splineVars, trajVars>>

get_uniform_in_orbits_times_Validating ==
    /\ pc = "orbit_call"
    /\ IF Len(phi_orb) < 2 \/ ~StrictlyIncreasing(phi_orb)
       THEN /\ raised' = IF phi_orb = << >> THEN "IndexError" ELSE "ValueError"
            /\ pc' = "failed"
            /\ UNCHANGED <<n_pts, t_sparse>>
       ELSE /\ n_pts' = NPts(phi_orb)
            /\ t_sparse' = UniformInOrbits(nr_tds, phi_orb)
            /\ pc' = "returned"
            /\ UNCHANGED raised
    /\ UNCHANGED <<nr_tds, phi_orb, notOrbitVars>>

\* lines 154-167.  phi_orb[-1] of an empty array raises IndexError.
get_uniform_in_orbits_times ==
    /\ pc = "orbit_call"
    /\ IF phi_orb = << >>
       THEN /\ raised' = "IndexError"
            /\ pc' = "failed"
            /\ UNCHANGED <<n_pts, t_sparse>>
       ELSE /\ n_pts' = NPts(phi_orb)
            /\ t_sparse' = UniformInOrbits(nr_tds, phi_orb)
            /\ pc' = "returned"
            /\ UNCHANGED raised
    /\ UNCHANGED <<nr_tds, phi_orb, notOrbitVars>>

OrbitNext == get_uniform_in_orbits_times

OrbitSpec == OrbitInit /\ [][OrbitNext]_vars

PhaseSpan == Abs(phi_orb[Len(phi_orb)] - phi_orb[1])

Monotonic(s) ==
    \/ \A i \in DOMAIN s : i < Len(s) => s[i] <= s[i + 1]
    \/ \A i \in DOMAIN s : i < Len(s) => s[i] >= s[i + 1]

\* C11 as claimed: a phase series that is not monotonic, or has fewer than
\* 2 points, makes the call fail with an error and return no time grid.
C11_FailsOnBadPhaseSeries ==
    (pc \in {"returned", "failed"} /\ (Len(phi_orb) < 2 \/ ~Monotonic(phi_orb))) =>
        (pc = "failed" /\ raised # "none" /\ t_sparse = << >>)

\* C11 as the program has it: the call fails exactly when the phase series
\* is empty, with IndexError.  A series of one point gives an empty grid and
\* no error; any other series, monotonic or not, gives PTS_PER_ORBIT samples
\* per whole orbit between its first and its last phase, each one a time of
\* the dense grid or between two of them.
C11_FailsOnEmptyPhaseSeriesOnly ==
    /\ pc = "failed" => (phi_orb = << >> /\ raised = "IndexError" /\ t_sparse = << >>)
    /\ pc = "returned" =>
          /\ phi_orb # << >>
          /\ raised = "none"
          /\ Len(t_sparse) = NOrbits(phi_orb) * PTS_PER_ORBIT
          /\ Len(phi_orb) = 1 => t_sparse = << >>
          /\ \A k \in DOMAIN t_sparse :
                /\ t_sparse[k] >= nr_tds[1]
                /\ t_sparse[k] <= nr_tds[Len(nr_tds)]

C11_GridFromNonMonotonicPhase ==
    /\ pc = "returned"
    /\ ~Monotonic(phi_orb)
    /\ raised = "none"
    /\ Len(t_sparse) = PTS_PER_ORBIT
    /\ t_sparse[1] < t_sparse[Len(t_sparse)]

---------------------------------------------------------------------------
(* get_trajectory and its two calls, evaluated in one of two arithmetics.  *)
(*                                                                         *)
(* "real": exact arithmetic.  An orbital phase is one of the CirclePoints  *)
(* angles of a turn at which cosine and sine are multiples of 1/TrigScale  *)
(* (the angles of (5,0), (4,3), (3,4), (0,5), ...), a separation is a      *)
(* whole number, and with mA = q/(1+q), mB = 1/(1+q) a position is a       *)
(* vector of whole numbers in units of 1/(TrigScale (1+q)).                *)
(*                                                                         *)
(* "float64": IEEE-754 doubles.  A double is <<sign, hi, lo, e>>, standing *)
(* for sign * (hi * 2^28 + lo) * 2^(e - 56) with the significand in        *)
(* [2^55, 2^56), and zero is <<0, 0, 0, 0>>.  The inputs are those for     *)
(* which every operation but np.cos, np.sin and the addition of np.pi is   *)
(* exact: q = 1 (mA = mB = 0.5), separations that are powers of two, and   *)
(* rotations by the quaternions of QuatSet.  A phase is a number of half   *)
(* radians.                                                                *)

MaxQ == 3
MaxSamples == 2
SeparationSet == {1, 2}
PhaseSet == {0, 1, 5, 14}
ArithSet == {"real", "float64"}

CosTable == <<5, 4, 3, 0, -3, -4, -5, -4, -3, 0, 3, 4>>
SinTable == <<0, 3, 4, 5, 4, 3, 0, -3, -4, -5, -4, -3>>

CirclePoints == Len(CosTable)
TrigScale == CosTable[1]

\* TrigScale * np.cos and TrigScale * np.sin
Cos5(a) == CosTable[(a % CirclePoints) + 1]
Sin5(a) == SinTable[(a % CirclePoints) + 1]

\* np.pi, in the unit of the phases
HalfTurn == CirclePoints \div 2

\* np.cos(x), np.sin(x), np.cos(x + np.pi) and np.sin(x + np.pi) in doubles,
\* for x = 0.0, 0.5, 1.0 and 2.0
Trig64 ==
    0 :> [cos |-> <<1, 134217728, 0, 1>>, sin |-> <<0, 0, 0, 0>>,
          cos_pi |-> <<-1, 134217728, 0, 1>>, sin_pi |-> <<1, 148050713, 144891960, -52>>] @@
    1 :> [cos |-> <<1, 235574275, 47966848, 0>>, sin |-> <<1, 257389626, 39333760, -1>>,
          cos_pi |-> <<-1, 235574275, 47966848, 0>>, sin_pi |-> <<-1, 257389626, 39333744, -1>>] @@
    2 :> [cos |-> <<1, 145036295, 229127264, 0>>, sin |-> <<1, 225880647, 138962800, 0>>,
          cos_pi |-> <<-1, 145036295, 229127264, 0>>, sin_pi |-> <<-1, 225880647, 138962792, 0>>] @@
    4 :> [cos |-> <<-1, 223417131, 177967144, -1>>, sin |-> <<1, 244087669, 109945392, 0>>,
          cos_pi |-> <<1, 223417131, 177967128, -1>>, sin_pi |-> <<-1, 244087669, 109945392, 0>>]

Phase64Set == DOMAIN Trig64

Zero64 == <<0, 0, 0, 0>>
Neg64(x) == <<-x[1], x[2], x[3], x[4]>>

\* the double of the power of two 2^j, signed by sgn
Pow2_64(sgn, j) == <<sgn, 2^27, 0, j + 1>>
Log2(n) == CHOOSE j \in 0..n : 2^j = n
Separation64Set == {Pow2_64(1, Log2(n)) : n \in SeparationSet}

\* a * b in doubles, a being a power of two: exact
Mul64(a, b) ==
    IF a = Zero64 \/ b = Zero64
    THEN Zero64
    ELSE <<a[1] * b[1], b[2], b[3], a[4] + b[4] - 1>>


Mul(a, b) == IF arith = "real" THEN a * b ELSE Mul64(a, b)
Neg(a) == IF arith = "real" THEN -a ELSE Neg64(a)
Zero == IF arith = "real" THEN 0 ELSE Zero64

\* np.cos(orbphase + offset) and np.sin(orbphase + offset), lines 142-143
Cos(a, offset) ==
    IF arith = "real" THEN Cos5(a + offset)
    ELSE IF offset = 0 THEN Trig64[a].cos ELSE Trig64[a].cos_pi
Sin(a, offset) ==
    IF arith = "real" THEN Sin5(a + offset)
    ELSE IF offset = 0 THEN Trig64[a].sin ELSE Trig64[a].sin_pi

\* unit quaternions <<w, x, y, z>>: the identity and the half turns about
\* the three axes
QuatSet == {<<1, 0, 0, 0>>, <<0, 1, 0, 0>>, <<0, 0, 1, 0>>, <<0, 0, 0, 1>>}

\* the rotation matrix of the unit quaternion qt
RotationMatrix(qt) ==
    LET w == qt[1]
        x == qt[2]
        y == qt[3]
        z == qt[4]
    IN  << <<w*w + x*x - y*y - z*z, 2 * (x*y - w*z), 2 * (x*z + w*y)>>,
           <<2 * (x*y + w*z), w*w - x*x + y*y - z*z, 2 * (y*z - w*x)>>,
           <<2 * (x*z - w*y), 2 * (y*z + w*x), w*w - x*x - y*y + z*z>> >>

\* surfinBH._utils.transformTimeDependentVector(quat, vec, inverse=0) at one
\* time: vec rotated by the unit quaternion qt.  For the quaternions of
\* QuatSet the matrix is diagonal with entries 1 and -1, so that in doubles
\* each component is kept or negated, exactly.
Rotate(qt, v) ==
    LET R == RotationMatrix(qt)
    IN  IF arith = "real"
        THEN [c \in 1..3 |-> R[c][1] * v[1] + R[c][2] * v[2] + R[c][3] * v[3]]
        ELSE [c \in 1..3 |-> Mul64(Pow2_64(R[c][c], 0), v[c])]

Offset_Zero(bh_label) == 0

\* lines 137-140: 0 for 'A', np.pi for 'B'
Offset(bh_label) == IF bh_label = "A" THEN 0 ELSE HalfTurn

\* lines 142-150
get_trajectory(sep, quat, phase, bh_label) ==
    [k \in DOMAIN sep |->
        Rotate(quat[k], << Mul(sep[k], Cos(phase[k], Offset(bh_label))),
                           Mul(sep[k], Sin(phase[k], Offset(bh_label))),
                           Zero >>)]

\* lines 393-394.  "real": the numerators of mA and mB over 1 + q;
\* "float64": the doubles q/(1. + q) and 1./(1. + q) at q = 1, both 0.5
MassA(qq) == IF arith = "real" THEN qq ELSE CASE qq = 1 -> Pow2_64(1, -1)
MassB(qq) == IF arith = "real" THEN 1 ELSE CASE qq = 1 -> Pow2_64(1, -1)

TrajInit ==
    /\ pc = "traj_call"
    /\ raised = "none"
    /\ arith \in ArithSet
    /\ q \in 1..MaxQ
    /\ arith = "float64" => q = 1
    /\ \E n \in 0..MaxSamples :
          /\ separation \in [1..n -> IF arith = "real" THEN SeparationSet
                                                       ELSE Separation64Set]
          /\ quat_nrsur \in [1..n -> QuatSet]
          /\ orbphase_nrsur \in [1..n -> IF arith = "real" THEN PhaseSet
                                                           ELSE Phase64Set]
    /\ BhA_traj = << >>
    /\ BhB_traj = << >>
    /\ IdleMain /\ IdleArtists /\ IdlePlay /\ IdleClick
    /\ IdleSave /\ IdleSpline /\ IdleOrbit

notTrajVars == <<mainVars, artistVars, playVars, clickVars, saveVars,
                 splineVars, orbitVars>>

\* lines 437-439
ComponentTrajectories ==
    /\ pc = "traj_call"
    /\ BhA_traj' = get_trajectory([k \in DOMAIN separation |->
                                      Mul(separation[k], MassB(q))],
                                  quat_nrsur, orbphase_nrsur, "A")
    /\ BhB_traj' = get_trajectory([k \in DOMAIN separation |->
                                      Mul(separation[k], MassA(q))],
                                  quat_nrsur, orbphase_nrsur, "B")
    /\ pc' = "returned"
    /\ UNCHANGED <<raised, arith, q, separation, quat_nrsur, orbphase_nrsur,
                   notTrajVars>>

TrajNext == ComponentTrajectories

TrajSpec == TrajInit /\ [][TrajNext]_vars

Norm2(v) == v[1] * v[1] + v[2] * v[2] + v[3] * v[3]

\* In exact arithmetic: the two positions are opposite as seen from the
\* origin, at the distances separation x mB and separation x mA.
OppositeAtMassRadii ==
    \A k \in DOMAIN separation :
        LET a == BhA_traj[k]
            b == BhB_traj[k]
        IN  /\ \A c \in 1..3 : q * a[c] + b[c] = 0
            /\ Norm2(a) = (TrigScale * separation[k]) * (TrigScale * separation[k])
            /\ Norm2(b) = (TrigScale * separation[k] * q)
                              * (TrigScale * separation[k] * q)

\* The doubles a and b are negatives of each other to within 4 units in the
\* last place, or both are below 2^-50 times the radius 2^(r - 1).
NearlyOpposite(a, b, r) ==
    \/ /\ a[1] = -b[1]
       /\ a[4] = b[4]
       /\ a[2] = b[2]
       /\ 8 * 4 >= Abs(a[3] - b[3])
    \/ /\ a = Zero64 \/ a[4] <= r - 50
       /\ b = Zero64 \/ b[4] <= r - 50

---------------------------------------------------------------------------
(* Properties of the frame sequence and of the time grids *)

Count(s, x) == Cardinality({i \in DOMAIN s : s[i] = x})

NonDecreasing(s) == \A i \in DOMAIN s : i < Len(s) => s[i] <= s[i + 1]

\* the samples of s within 0.1 M of FREEZE_TIME
NearFreeze(s) == {i \in DOMAIN s : 10 * Abs(s[i] - Ticks(FREEZE_TIME)) <= TicksPerM}

\* s with x put in at position i
InsertAt(s, i, x) == SubSeq(s, 1, i - 1) \o <<x>> \o SubSeq(s, i, Len(s))

FreezeStepDone == pc \in {"frozen", "interpolated", "gridded", "show"}

FramesBuilt == pc = "show" /\ last_num = -1

\* C1: the frame sequence holds the freeze index FREEZE_COPIES + 1 times,
\* every other index of 1..len(t)-1 exactly once, and is non-decreasing.
C1_FreezeIndexRepeated ==
    FramesBuilt =>
        /\ Count(frames, freeze_idx) = FREEZE_COPIES + 1
        /\ \A i \in 1..(Len(t) - 1) : i # freeze_idx => Count(frames, i) = 1
        /\ NonDecreasing(frames)

C3_ClickTogglesPause ==
    /\ [](pc = "show" => (pause <=> ~running))
    /\ [][clicks' = clicks + 1 => (pause' = ~pause /\ running' = pause)]_vars
    /\ [][pause => (frame_pos' = frame_pos /\ UNCHANGED artistVars)]_vars

C3_PausedAgainAfterPlaying ==
    pc = "show" /\ clicks = 3 /\ pause /\ ~running /\ frame_pos > 1

\* C7 as claimed: after the freeze step FREEZE_TIME was added exactly when
\* no sample was within 0.1 of it, the grid is sorted, and exactly one
\* sample lies within 0.1 of FREEZE_TIME.
C7_ExactlyOneNearFreeze ==
    FreezeStepDone =>
        /\ (NearFreeze(t_sparse) = {}) <=> (Len(t_binary) = Len(t_sparse) + 1)
        /\ NearFreeze(t_sparse) # {} => t_binary = t_sparse
        /\ NonDecreasing(t_binary)
        /\ Cardinality(NearFreeze(t_binary)) = 1

\* C7 (amended): an empty grid makes the freeze step fail; otherwise
\* FREEZE_TIME is put in, at its place in the order, exactly when no sample
\* is within 0.1 of it, and else the grid is left as it is; the result is
\* sorted and holds at least one sample within 0.1 of FREEZE_TIME, namely
\* as many as the grid held before, or one if it held none.
C7_FreezeTimePresent ==
    /\ (t_sparse = << >> /\ pc # "resampled") =>
            (pc = "failed" /\ raised = "ValueError")
    /\ FreezeStepDone =>
        /\ NearFreeze(t_sparse) = {} =>
              \E i \in 1..(Len(t_sparse) + 1) :
                  t_binary = InsertAt(t_sparse, i, Ticks(FREEZE_TIME))
        /\ NearFreeze(t_sparse) # {} => t_binary = t_sparse
        /\ NonDecreasing(t_binary)
        /\ Cardinality(NearFreeze(t_binary))
              = Max2(1, Cardinality(NearFreeze(t_sparse)))

C7_FreezeTimeInserted ==
    /\ pc = "frozen"
    /\ NearFreeze(t_sparse) = {}
    /\ \E i \in 2..Len(t_sparse) : t_binary[i] = Ticks(FREEZE_TIME)

\* C8: when t_binary is strictly increasing so is the composite grid t, and
\* two consecutive samples of t of which the first is at or after the
\* waveform end are 100 M apart.
C8_CompositeGridIncreasing ==
    pc \in {"gridded", "show"} =>
        /\ StrictlyIncreasing(t_binary) => StrictlyIncreasing(t)
        /\ \A i \in DOMAIN t :
              (i < Len(t) /\ t[i] >= Ticks(WAVEFORM_END_TIME))
                  => t[i + 1] - t[i] = Ticks(100)

C8_SampleAtWaveformEnd ==
    /\ pc = "gridded"
    /\ \E i \in DOMAIN t_binary : t_binary[i] = Ticks(WAVEFORM_END_TIME)
    /\ \E i \in DOMAIN t_binary : t_binary[i] > Ticks(WAVEFORM_END_TIME)
    /\ Len(t) < Len(t_binary) + Len(t) - Count(t, Ticks(WAVEFORM_END_TIME))

\* the number of leading samples of t_binary that t keeps
KeptBinary == Len(SelectSeq(t_binary, BeforeWaveformEnd))

\* C12 as claimed: BhA_traj, BhB_traj and BhC_traj all have as many samples
\* as the composite grid t.
C12_TrajectoriesOnCompositeGrid ==
    pc \in {"gridded", "show"} => (traj_len = Len(t) /\ BhC_len = Len(t))

\* C12 as the program has it: BhC_traj has one sample per sample of t, and
\* BhA_traj and BhB_traj one per sample of t_binary.  t starts with the
\* samples of t_binary below waveform_end_time, at the same indices, and
\* goes on with POST_MERGER_SPAN / POST_MERGER_STEP samples of its own, so
\* the index of any sample of t below waveform_end_time is an index of all
\* three arrays.
C12_TrajectoriesOnTheirOwnGrids ==
    pc \in {"gridded", "show"} =>
        /\ BhC_len = Len(t)
        /\ traj_len = Len(t_binary)
        /\ Len(t) = KeptBinary + POST_MERGER_SPAN \div POST_MERGER_STEP
        /\ \A i \in 1..KeptBinary : t[i] = t_binary[i]
        /\ \A i \in DOMAIN t :
              t[i] < Ticks(WAVEFORM_END_TIME) => (i <= traj_len /\ i <= BhC_len)

C12_BinaryGridShorter ==
    /\ pc = "show"
    /\ last_num >= 1
    /\ t[last_num + 1] < 0
    /\ traj_len < Len(t)
    /\ KeptBinary < Len(t_binary)
    /\ BhC_len = Len(t)

BinaryShown == \E idx \in 0..6 : lines[idx] # << >>

RemnantShown == lines[7] # << >> \/ lines[8] # << >> \/ timestep_text # ""

\* after a frame with time >= 0, which draws the remnant, nothing of the
\* binary is displayed
BinaryClearedAtMerger ==
    (pc = "show" /\ last_num >= 0 /\ t[last_num + 1] >= 0) =>
        (lines[7] # << >> /\ lines[8] # << >> /\ ~BinaryShown)

\* after a pre-merger frame, the first frame of a pass included, nothing of
\* the remnant is displayed
RemnantClearedOnNewPass ==
    (pc = "show" /\ last_num >= 0 /\ t[last_num + 1] < 0) => ~RemnantShown

\* C13: whatever frames update_lines has drawn, over any number of passes,
\* the artists of the binary and those of the remnant are never displayed
\* together.
C13_BinaryAndRemnantNeverTogether ==
    BinaryClearedAtMerger /\ RemnantClearedOnNewPass

\* C14: index 0 is not among the frames and is never passed to
\* update_lines, so the index num-1 it reads the waveform, the spins, the
\* trajectories and the angular momentum at is the one of the sample just
\* before t[num], not the last sample.
C14_FirstIndexSkipped ==
    pc = "show" =>
        /\ \A i \in DOMAIN frames : frames[i] >= 1
        /\ last_num >= 0 =>
              /\ last_num >= 1
              /\ t[last_num + 1] < Ticks(WAVEFORM_END_TIME) =>
                    collections = <<last_num - 1>>
              /\ t[last_num + 1] < 0 =>
                    /\ properties_text = <<"binary", last_num - 1>>
                    /\ \A idx \in 4..6 : lines[idx] = <<last_num - 1>>

\* C9: after update_lines drew a pre-merger frame num, each trail ends at
\* sample num-1 and starts at sample 0 (full trajectory) or at
\* max(0, num - hist_frames), holding at most hist_frames samples; each
\* marker holds the single sample num-1.
C9_TrailWindow ==
    (pc = "show" /\ last_num >= 0 /\ t[last_num + 1] < 0) =>
        LET num == last_num
            first == IF draw_full_trajectory THEN 0
                     ELSE Max2(0, num - (3 * PTS_PER_ORBIT) \div 4)
        IN  \A idx \in {0, 1} :
              /\ lines[idx] # << >>
              /\ lines[idx][Len(lines[idx])] = num - 1
              /\ lines[idx][1] = first
              /\ Len(lines[idx]) = num - first
              /\ ~draw_full_trajectory =>
                    Len(lines[idx]) <= (3 * PTS_PER_ORBIT) \div 4
              /\ lines[idx + 2] = <<num - 1>>

============================================================================
